---- MODULE Spec2Model ----
(***************************************************************************)
(* A model of vrc-get's project resolution engine                          *)
(* (vrc-get-vpm/src/unity_project.rs): loading a project                   *)
(* (find_unity_project), resolve, mark_and_sweep and save, over a package  *)
(* folder on disk, the lock file vpm-manifest.json and a package index.    *)
(*                                                                         *)
(* The modules add_package, package_resolution and vpm_manifest and the    *)
(* Environment are not part of the sources at hand; the operators that     *)
(* stand for them are written from the design document and are marked so.  *)
(*                                                                         *)
(* Beside the engine: the search for the project directory                 *)
(* (find_unity_project_path), the reading of the editor version            *)
(* (try_read_unity_version), the batches of try_join_all task by task, and *)
(* the cache of the GUI's configuration (vrc-get-gui/src/config.rs).       *)
(***************************************************************************)
EXTENDS Integers, Sequences, FiniteSets, TLC

VARIABLES
    disk,                \* the package folder: directory name -> content
    lockFile,            \* Packages/vpm-manifest.json: sequence of locked entries
    env,                 \* the packages the Environment can find
    ioFaults,            \* whether file operations may fail with an I/O error
    loaded,              \* whether a UnityProject value exists
    manifest,            \* UnityProject.manifest: locked entries, insertion order
    unlocked_packages,   \* UnityProject.unlocked_packages
    installed_packages,  \* UnityProject.installed_packages
    last,                \* the last call: its kind, its result, the state it started from
    projectVersionFile,  \* ProjectSettings/ProjectVersion.txt
    unity_version,       \* UnityProject.unity_version
    walk,                \* find_unity_project_path: the file system above the working
                         \* directory, the candidate path, the result
    batch,               \* a try_join_all batch in flight, task by task
    holder               \* GuiConfigHolder, the config file and what was read from it

vars == <<disk, lockFile, env, ioFaults, loaded, manifest, unlocked_packages,
          installed_packages, last, projectVersionFile, unity_version,
          walk, batch, holder>>

\* what the calls on a loaded project leave alone
aside == <<walk, batch, holder>>

----------------------------------------------------------------------------
(* Bounds of the model. *)

\* the most locked entries the lock file holds initially
MaxLocked == 3
\* the most entries the package folder holds initially
MaxDirs == 2

----------------------------------------------------------------------------
(* Versions, ranges, descriptors. *)

\* a semantic version: major number and whether it carries a pre-release tag
Ver(m) == [major |-> m, pre |-> FALSE]

\* version order: by major, a tagged version of the next minor above the plain one
VerRank(v) == 2 * v.major + (IF v.pre THEN 1 ELSE 0)

\* "^m.0": any version of major m;  "*": any version.  pre: the range itself
\* names a pre-release, and so admits pre-release versions
Caret(m) == [kind |-> "caret", major |-> m, pre |-> FALSE]
AnyRange == [kind |-> "any", major |-> 0, pre |-> FALSE]

Dep(n, r) == [name |-> n, range |-> r]

\* a package descriptor (package.json) / an index package / a locked entry
Package(n, v, d) == [name |-> n, version |-> v, deps |-> d]

\* VersionRange::matches, with the pre-release gate of the selector
RangeMatches(r, v, allow_prerelease) ==
    /\ r.kind = "any" \/ v.major = r.major
    /\ v.pre => (allow_prerelease \/ r.pre)

\* the packages the full index offers
Index ==
    { Package("X", Ver(1), <<>>),
      Package("X", Ver(2), << Dep("Z", Caret(2)) >>),
      Package("Y", Ver(1), << Dep("Z", Caret(1)), Dep("X", Caret(1)) >>),
      Package("Z", Ver(1), <<>>),
      Package("Z", Ver(2), <<>>) }

\* index packages that an environment may lack
Removable == { p \in Index : p.name \in {"X", "Z"} /\ p.version = Ver(1) }

\* the environments: the full index, or the index without the removable packages
Environments == { Index, Index \ Removable }

\* packages the user dropped into the package folder by hand
UserPackages ==
    { Package("A", Ver(1), << Dep("X", Caret(1)) >>),
      Package("A", Ver(2), << Dep("Y", AnyRange) >>),
      Package("B", Ver(1), << Dep("X", Caret(2)) >>) }

Descriptors == Index \cup UserPackages

DirNames == { p.name : p \in Descriptors }

\* a pre-release version, and a range that names one and so admits them
PreVer(m) == [major |-> m, pre |-> TRUE]
PreCaret(m) == [kind |-> "caret", major |-> m, pre |-> TRUE]

\* an index with pre-releases: Y 1.1.0-beta beside Y 1.0.0, Z 2.1.0-beta above
\* Z 1.0.0; X depends on any Z
PreIndex ==
    { Package("X", Ver(1), << Dep("Z", AnyRange) >>),
      Package("Y", Ver(1), <<>>),
      Package("Y", PreVer(1), <<>>),
      Package("Z", Ver(1), <<>>),
      Package("Z", PreVer(2), <<>>) }

PreRemovable == { p \in PreIndex : p.name = "Y" \/ p.version = PreVer(2) }

PreEnvironments == { PreIndex \ S : S \in SUBSET PreRemovable }

\* user packages for it: A asks for Y by a range naming a pre-release, or by a
\* plain range; B asks for X
PreUserPackages ==
    { Package("A", Ver(1), << Dep("Y", PreCaret(1)) >>),
      Package("A", Ver(2), << Dep("Y", Caret(1)) >>),
      Package("B", Ver(1), << Dep("X", Caret(1)) >>) }

----------------------------------------------------------------------------
(* Generic helpers. *)

Range(s) == { s[i] : i \in DOMAIN s }

Injective(s) == \A i, j \in DOMAIN s : s[i] = s[j] => i = j

\* all orders in which the members of S can be enumerated
Orders(S) == { s \in [1..Cardinality(S) -> S] : Injective(s) }

----------------------------------------------------------------------------
(* The package folder. *)

Absent == [st |-> "absent", json |-> <<>>]
\* an entry whose package.json is missing or does not parse
Corrupt == [st |-> "entry", json |-> <<>>]
Holding(p) == [st |-> "entry", json |-> <<p>>]

\* what an entry named d may hold before the project is loaded: nothing readable,
\* a descriptor of that name, or the descriptor of a differently named package
FolderDescriptors == UserPackages \cup { p \in Index : p.version = Ver(1) }

DirOptions(d) ==
    {Absent}
        \cup (IF d \in {"X", "Z"} THEN {Corrupt} ELSE {})
        \cup { Holding(p) : p \in { q \in FolderDescriptors : q.name = d } }
        \cup (IF d = "X" THEN { Holding(Package("Z", Ver(1), <<>>)) } ELSE {})

Present(dk) == { d \in DirNames : dk[d].st # "absent" }

Disks == { dk \in [DirNames -> UNION { DirOptions(d) : d \in DirNames }] :
             /\ \A d \in DirNames : dk[d] \in DirOptions(d)
             /\ Cardinality(Present(dk)) <= MaxDirs }

\* lock files: up to MaxLocked entries of distinct names, each as the index declares it
LockFiles == { s \in UNION { [1..n -> Index] : n \in 0..MaxLocked } :
                 \A i, j \in DOMAIN s : s[i].name = s[j].name => i = j }


----------------------------------------------------------------------------
(* find_unity_project_path: the search for the project directory. *)

\* the most directories between the root and the working directory
MaxDepth == 3

\* the names of the directories from the root down
DirLabels == << "a", "b", "c", "d", "e" >>

\* a path is the sequence of its components below the root; <<>> is the root
Cwds == { SubSeq(DirLabels, 1, n) : n \in 0..MaxDepth }

LockFileNames == {"vpm-manifest.json", "manifest.json"}

AncestorsOf(p) == { SubSeq(p, 1, n) : n \in 0..Len(p) }

\* the files the search looks for, the working directory being cwd
MarkerPaths(cwd) ==
    { a \o << "Packages", f >> : a \in AncestorsOf(cwd), f \in LockFileNames }

\* PathBuf::push, PathBuf::pop (false, and no change, when there is no parent),
\* Path::exists
Push(p, c) == Append(p, c)
CanPop(p) == p # <<>>
Pop(p) == IF CanPop(p) THEN SubSeq(p, 1, Len(p) - 1) ELSE p
Exists(files, p) == p \in files

NoWalk ==
    [ pc |-> "off", cwd |-> <<>>, files |-> {}, candidate |-> <<>>,
      kind |-> "none", path |-> <<>>, iterations |-> 0 ]

\* as ProjectPathOf, with the file's name alone removed
ProjectPathOfParent(candidate) == Pop(candidate)

\* the project path of a lock file found: the two pushed components removed
ProjectPathOf(candidate) == Pop(Pop(candidate))

\* env::current_dir
FindUnityProjectPath ==
    /\ walk.pc = "called"
    /\ walk' = [walk EXCEPT !.pc = "loop", !.candidate = walk.cwd]
    /\ UNCHANGED <<disk, lockFile, env, ioFaults, loaded, manifest, unlocked_packages,
                   installed_packages, last, projectVersionFile, unity_version,
                   batch, holder>>

\* one turn of the loop
FindUnityProjectPathLoop ==
    /\ walk.pc = "loop"
    /\ LET vpm == Push(Push(walk.candidate, "Packages"), "vpm-manifest.json")
           legacy == Push(Pop(vpm), "manifest.json")
           here == Pop(Pop(legacy))
           turn == [walk EXCEPT !.iterations = @ + 1]
       IN  walk' =
             IF Exists(walk.files, vpm)
             THEN [turn EXCEPT !.pc = "done", !.kind = "Ok",
                               !.path = ProjectPathOf(vpm), !.candidate = ProjectPathOf(vpm)]
             ELSE IF Exists(walk.files, legacy)
             THEN [turn EXCEPT !.pc = "done", !.kind = "Ok",
                               !.path = ProjectPathOf(legacy),
                               !.candidate = ProjectPathOf(legacy)]
             ELSE IF ~CanPop(here)
             THEN [turn EXCEPT !.pc = "done", !.kind = "NotFound", !.candidate = here]
             ELSE [turn EXCEPT !.candidate = Pop(here)]
    /\ UNCHANGED <<disk, lockFile, env, ioFaults, loaded, manifest, unlocked_packages,
                   installed_packages, last, projectVersionFile, unity_version,
                   batch, holder>>

----------------------------------------------------------------------------
(* ProjectSettings/ProjectVersion.txt and try_read_unity_version. *)

\* the most tokens of text the file holds
MaxText == 4

\* the text of the file, token by token: the marker "m_EditorVersion:", a space,
\* the line ends, a version as the editor writes it, any other text
Tokens == {"m_EditorVersion:", " ", "\r", "\n", "2022.3.6f1", "junk"}

LineEnds == {"\r", "\n"}

VersionTokens == {"2022.3.6f1"}

MissingFile == [st |-> "NotFound", text |-> <<>>]
\* the file is there and cannot be opened / is opened and cannot be read
UnopenableFile == [st |-> "OpenError", text |-> <<>>]
UnreadableFile == [st |-> "ReadError", text |-> <<>>]
TextFile(t) == [st |-> "text", text |-> t]

VersionFiles ==
    {MissingFile, UnopenableFile, UnreadableFile}
        \cup { TextFile(t) : t \in UNION { [1..n -> Tokens] : n \in 0..MaxText } }

\* as SplitOnce, at the last occurrence of the marker
SplitOnceLast(t, marker) ==
    IF \E i \in DOMAIN t : t[i] = marker
    THEN LET i == CHOOSE k \in DOMAIN t :
                     t[k] = marker /\ \A l \in (k + 1)..Len(t) : t[l] # marker
         IN  << SubSeq(t, i + 1, Len(t)) >>
    ELSE <<>>

\* str::split_once: what follows the first occurrence of the marker, if any
SplitOnce(t, marker) ==
    IF \E i \in DOMAIN t : t[i] = marker
    THEN LET i == CHOOSE k \in DOMAIN t :
                     t[k] = marker /\ \A l \in 1..(k - 1) : t[l] # marker
         IN  << SubSeq(t, i + 1, Len(t)) >>
    ELSE <<>>

\* version_info_end: the place of the first line end, or the length
VersionInfoEnd(t) ==
    IF \E i \in DOMAIN t : t[i] \in LineEnds
    THEN (CHOOSE k \in DOMAIN t :
              t[k] \in LineEnds /\ \A l \in 1..(k - 1) : t[l] \notin LineEnds) - 1
    ELSE Len(t)

\* str::trim
RECURSIVE TrimStart(_)
TrimStart(t) == IF t # <<>> /\ Head(t) = " " THEN TrimStart(Tail(t)) ELSE t

RECURSIVE TrimEnd(_)
TrimEnd(t) ==
    IF t # <<>> /\ t[Len(t)] = " " THEN TrimEnd(SubSeq(t, 1, Len(t) - 1)) ELSE t

Trim(t) == TrimEnd(TrimStart(t))

\* UnityVersion::parse: the version, if the text is one
UnityVersionParse(t) == IF Len(t) = 1 /\ t[1] \in VersionTokens THEN << t[1] >> ELSE <<>>

\* try_read_unity_version
TryReadUnityVersion(file) ==
    IF file.st # "text" THEN <<>>
    ELSE LET rest == SplitOnce(file.text, "m_EditorVersion:")
         IN  IF rest = <<>> THEN <<>>
             ELSE UnityVersionParse(
                      Trim(SubSeq(rest[1], 1, VersionInfoEnd(rest[1]))))

----------------------------------------------------------------------------
(* The manifest (vpm_manifest) and the environment, as far as the engine uses them. *)

\* VpmManifest::get_locked: the entry of that name, if any
GetLocked(m, name) == SelectSeq(m, LAMBDA e : e.name = name)

IsLocked(m, name) == GetLocked(m, name) # <<>>

LockedNames(m) == { m[i].name : i \in DOMAIN m }

\* the best of a set of candidates: the one of the highest version
Best(cands) ==
    IF cands = {} THEN <<>>
    ELSE << CHOOSE p \in cands : \A q \in cands : VerRank(q.version) <= VerRank(p.version) >>

\* Environment::find_package_by_name with VersionSelector::specific_version
FindExact(e, name, version) ==
    Best({ p \in e : p.name = name /\ p.version = version })

\* Environment::find_package_by_name with a selector over ranges: the best package
\* every range admits
FindByRanges(e, name, ranges, allow_prerelease) ==
    Best({ p \in e : /\ p.name = name
                     /\ \A i \in DOMAIN ranges :
                            RangeMatches(ranges[i], p.version, allow_prerelease) })

----------------------------------------------------------------------------
(* The record of the last call. *)

NoCall ==
    [ op |-> "none", kind |-> "none",
      conflict |-> "", dependency_name |-> "",
      installed_from_locked |-> <<>>,
      installed_from_unlocked_dependencies |-> <<>>,
      removed |-> {},
      phaseADisk |-> [d \in DirNames |-> Absent],
      roots |-> <<>>, closure |-> <<>>, conflicts |-> <<>>,
      phase |-> "", completed |-> {}, queries |-> <<>>, allow_prerelease |-> FALSE,
      preManifest |-> <<>>, preLockFile |-> <<>>,
      preDisk |-> [d \in DirNames |-> Absent],
      afterOkResolve |-> FALSE ]

\* the state a call starts from
Call(op) ==
    [ NoCall EXCEPT !.op = op,
                    !.phaseADisk = disk,
                    !.preManifest = manifest,
                    !.preLockFile = lockFile,
                    !.preDisk = disk,
                    !.afterOkResolve = (last.op = "resolve" /\ last.kind = "Ok") ]

----------------------------------------------------------------------------
(* find_unity_project: load the lock file, classify the package folder. *)

\* try_read_unlocked_package: the entry's name and its descriptor, if it parses
TryReadUnlockedPackage(dk, d) == [name |-> d, json |-> dk[d].json]

\* as IsInstalled, without the comparison of the descriptor's name with the
\* directory's
IsInstalledAnyName(read, m) ==
    /\ read.json # <<>>
    /\ IsLocked(m, read.json[1].name)

\* the test of the loading loop: the descriptor parsed, is named as its directory,
\* and that name is locked
IsInstalled(read, m) ==
    /\ read.json # <<>>
    /\ read.json[1].name = read.name
    /\ IsLocked(m, read.json[1].name)

\* the entries in the order read_dir yields them
ReadAll(dk, ord) == [i \in DOMAIN ord |-> TryReadUnlockedPackage(dk, ord[i])]

LoadInstalled(dk, m) ==
    LET inst == { d \in Present(dk) : IsInstalled(TryReadUnlockedPackage(dk, d), m) }
    IN  [d \in inst |-> dk[d].json[1]]

LoadUnlocked(dk, m, ord) ==
    SelectSeq(ReadAll(dk, ord), LAMBDA read : ~IsInstalled(read, m))

FindUnityProject ==
    /\ ~loaded
    /\ \E ord \in Orders(Present(disk)) :
        /\ loaded' = TRUE
        /\ manifest' = lockFile
        /\ installed_packages' = LoadInstalled(disk, lockFile)
        /\ unlocked_packages' = LoadUnlocked(disk, lockFile, ord)
        /\ unity_version' = TryReadUnityVersion(projectVersionFile)
        /\ last' = [Call("load") EXCEPT !.kind = "Ok"]
        /\ UNCHANGED <<disk, lockFile, env, ioFaults, projectVersionFile, aside>>

\* save: write the manifest to Packages/vpm-manifest.json
Save ==
    /\ loaded
    /\ lockFile' = manifest
    /\ last' = [Call("save") EXCEPT !.kind = "Ok"]
    /\ UNCHANGED <<disk, env, ioFaults, loaded, manifest, unlocked_packages, installed_packages>>
    /\ UNCHANGED <<projectVersionFile, unity_version, aside>>

----------------------------------------------------------------------------
(* The installer (add_package) and the request builder (package_resolution). *)

\* add_package: the directory named after the package holds that package;
\* installing what is already there changes nothing
AddPackage(dk, p) == [dk EXCEPT ![p.name] = Holding(p)]

\* the folder after each package of a set (of distinct names) is installed
AddPackages(dk, pkgs) ==
    [d \in DirNames |->
        IF \E p \in pkgs : p.name = d
        THEN Holding(CHOOSE p \in pkgs : p.name = d)
        ELSE dk[d]]

\* VpmManifest: record a locked entry, replacing the entry of that name in place
AddLocked(m, p) ==
    IF IsLocked(m, p.name)
    THEN [i \in DOMAIN m |-> IF m[i].name = p.name THEN p ELSE m[i]]
    ELSE Append(m, p)

RECURSIVE AddAllLocked(_, _)
AddAllLocked(m, pkgs) ==
    IF pkgs = <<>> THEN m ELSE AddAllLocked(AddLocked(m, Head(pkgs)), Tail(pkgs))

\* the conflict table, in insertion order: name -> the requirers that cannot be met
AddConflict(conflicts, name, requirer) ==
    IF \E i \in DOMAIN conflicts : conflicts[i].name = name
    THEN [i \in DOMAIN conflicts |->
            IF conflicts[i].name = name
            THEN [conflicts[i] EXCEPT !.requirers = Append(@, requirer)]
            ELSE conflicts[i]]
    ELSE Append(conflicts, [name |-> name, requirers |-> <<requirer>>])

\* the version already settled for a name: chosen in this request, or locked
Settled(m, st, name) ==
    LET mine == SelectSeq(st.locked \o st.work, LAMBDA p : p.name = name)
    IN  IF mine # <<>> THEN << mine[1].version >>
        ELSE IF IsLocked(m, name) THEN << GetLocked(m, name)[1].version >>
        ELSE <<>>

\* the declared dependencies of a package being added, in order
RECURSIVE WalkDeps(_, _, _, _, _, _)
WalkDeps(e, m, allow_prerelease, requirer, deps, st) ==
    IF deps = <<>> \/ st.missing # "" THEN st
    ELSE
        LET d == Head(deps)
            have == Settled(m, st, d.name)
            found == FindByRanges(e, d.name, <<d.range>>, allow_prerelease)
            st2 == IF have # <<>>
                   THEN IF RangeMatches(d.range, have[1], TRUE)
                        THEN st
                        ELSE [st EXCEPT !.conflicts = AddConflict(@, d.name, requirer)]
                   ELSE IF found = <<>>
                        THEN [st EXCEPT !.missing = d.name]
                        ELSE [st EXCEPT !.work = Append(@, found[1])]
        IN  WalkDeps(e, m, allow_prerelease, requirer, Tail(deps), st2)

\* the transitive closure of the packages to add
RECURSIVE Collect(_, _, _, _)
Collect(e, m, allow_prerelease, st) ==
    IF st.work = <<>> \/ st.missing # "" THEN st
    ELSE
        LET p == Head(st.work)
            taken == [st EXCEPT !.work = Tail(@), !.locked = Append(@, p)]
        IN  Collect(e, m, allow_prerelease,
                    WalkDeps(e, m, allow_prerelease, p.name, p.deps, taken))

\* add_package_request: the packages to lock (the closure, roots first), the
\* conflict table, or the name of a dependency the environment lacks
AddPackageRequest(e, m, packages, allow_prerelease) ==
    Collect(e, m, allow_prerelease,
            [work |-> packages, locked |-> <<>>, conflicts |-> <<>>, missing |-> ""])

----------------------------------------------------------------------------
(* resolve. *)

\* as LockedLookup, by name alone
LockedLookupAnyVersion(e, dep) == Best({ p \in e : p.name = dep.name })

\* Phase A, one task: the exact lookup of a locked entry
LockedLookup(e, dep) == FindExact(e, dep.name, dep.version)

\* the first locked entry, in the order of all_locked, whose lookup finds nothing
\* (0: none); its task ends the batch when it is first polled
FirstMissing(m, e) ==
    IF \E i \in DOMAIN m : LockedLookup(e, m[i]) = <<>>
    THEN CHOOSE i \in DOMAIN m :
            /\ LockedLookup(e, m[i]) = <<>>
            /\ \A j \in 1..(i - 1) : LockedLookup(e, m[j]) # <<>>
    ELSE 0

\* as InstalledFromLocked, the packages looked up but not installed
InstalledFromLockedLookupOnly(m, e, dk, faults) ==
    LET k == FirstMissing(m, e)
    IN  IF k > 0
        THEN { [kind |-> "DependencyNotFound", dependency_name |-> m[k].name,
                pkgs |-> <<>>, done |-> {}, disk |-> dk] }
        ELSE { [kind |-> "Ok", dependency_name |-> "",
                pkgs |-> [i \in DOMAIN m |-> LockedLookup(e, m[i])[1]],
                done |-> {}, disk |-> dk] }

\* as InstalledFromLocked, the installs undone when the batch fails
InstalledFromLockedRolledBack(m, e, dk, faults) ==
    LET k == FirstMissing(m, e)
        pkg(i) == LockedLookup(e, m[i])[1]
    IN  IF k > 0
        THEN { [kind |-> "DependencyNotFound", dependency_name |-> m[k].name,
                pkgs |-> <<>>, done |-> { pkg(i) : i \in S }, disk |-> dk] :
                    S \in SUBSET (1..(k - 1)) }
        ELSE { [kind |-> "Ok", dependency_name |-> "",
                pkgs |-> [i \in DOMAIN m |-> pkg(i)],
                done |-> { pkg(i) : i \in DOMAIN m },
                disk |-> AddPackages(dk, { pkg(i) : i \in DOMAIN m })] }
             \cup
             { [kind |-> "Io", dependency_name |-> "",
                pkgs |-> <<>>, done |-> { pkg(i) : i \in S }, disk |-> dk] :
                    S \in { T \in SUBSET (DOMAIN m) : faults /\ T # DOMAIN m } }

\* as InstalledFromLocked, a locked entry the environment lacks passed over
InstalledFromLockedSkippingMissing(m, e, dk, faults) ==
    LET found == SelectSeq(m, LAMBDA dep : LockedLookup(e, dep) # <<>>)
        pkgs == [i \in DOMAIN found |-> LockedLookup(e, found[i])[1]]
    IN  { [kind |-> "Ok", dependency_name |-> "", pkgs |-> pkgs,
           done |-> Range(pkgs), disk |-> AddPackages(dk, Range(pkgs))] }

\* what Phase A leaves: the packages looked up and installed, or the error of
\* the batch with the installs that completed before it ended
InstalledFromLocked(m, e, dk, faults) ==
    LET k == FirstMissing(m, e)
        pkg(i) == LockedLookup(e, m[i])[1]
    IN  IF k > 0
        THEN { [kind |-> "DependencyNotFound", dependency_name |-> m[k].name,
                pkgs |-> <<>>, done |-> { pkg(i) : i \in S },
                disk |-> AddPackages(dk, { pkg(i) : i \in S })] :
                    S \in SUBSET (1..(k - 1)) }
        ELSE { [kind |-> "Ok", dependency_name |-> "",
                pkgs |-> [i \in DOMAIN m |-> pkg(i)],
                done |-> { pkg(i) : i \in DOMAIN m },
                disk |-> AddPackages(dk, { pkg(i) : i \in DOMAIN m })] }
             \cup
             { [kind |-> "Io", dependency_name |-> "",
                pkgs |-> <<>>, done |-> { pkg(i) : i \in S },
                disk |-> AddPackages(dk, { pkg(i) : i \in S })] :
                    S \in { T \in SUBSET (DOMAIN m) : faults /\ T # DOMAIN m } }

\* the descriptors of the unlocked packages that have one
UnlockedDescriptors(up) ==
    LET some == SelectSeq(up, LAMBDA u : u.json # <<>>)
    IN  [i \in DOMAIN some |-> some[i].json[1]]

\* as UnlockedNames, empty
UnlockedNamesNone(up) == {}

\* unlocked_names
UnlockedNames(up) == { p.name : p \in Range(UnlockedDescriptors(up)) }

RECURSIVE Flatten(_)
Flatten(ss) == IF ss = <<>> THEN <<>> ELSE Head(ss) \o Flatten(Tail(ss))

\* as Requirements, without the filter on locked names
RequirementsLockedToo(up, m) ==
    LET ds == UnlockedDescriptors(up)
        all == Flatten([i \in DOMAIN ds |-> ds[i].deps])
    IN  SelectSeq(all, LAMBDA d : d.name \notin UnlockedNames(up))

\* the dependencies the unlocked packages declare, less the locked names and
\* the names of unlocked packages
Requirements(up, m) ==
    LET ds == UnlockedDescriptors(up)
        all == Flatten([i \in DOMAIN ds |-> ds[i].deps])
    IN  SelectSeq(all, LAMBDA d : ~IsLocked(m, d.name) /\ d.name \notin UnlockedNames(up))

\* into_group_map: name -> the ranges declared for it, in order
GroupMap(reqs) ==
    [n \in { reqs[i].name : i \in DOMAIN reqs } |->
        LET mine == SelectSeq(reqs, LAMBDA d : d.name = n)
        IN  [i \in DOMAIN mine |-> mine[i].range]]

\* as GroupSelector, of the first range declared alone
GroupSelectorFirst(ranges) == <<ranges[1]>>

\* the selector of one group: VersionSelector::ranges_for over all its ranges
GroupSelector(ranges) == ranges

\* the lookup of one group
GroupLookup(e, groups, n) == FindByRanges(e, n, GroupSelector(groups[n]), FALSE)

\* unlocked_dependencies: the groups are looked up in the order the map yields
\* them; the first that finds nothing is the error, and ends the lookups.
\* queried: the names looked up, in order
UnlockedDependencies(e, groups, ord) ==
    IF \E i \in DOMAIN ord : GroupLookup(e, groups, ord[i]) = <<>>
    THEN LET k == CHOOSE i \in DOMAIN ord :
                      /\ GroupLookup(e, groups, ord[i]) = <<>>
                      /\ \A j \in 1..(i - 1) : GroupLookup(e, groups, ord[j]) # <<>>
         IN  [kind |-> "DependencyNotFound", dependency_name |-> ord[k],
              pkgs |-> <<>>, queried |-> SubSeq(ord, 1, k)]
    ELSE [kind |-> "Ok", dependency_name |-> "",
          pkgs |-> [i \in DOMAIN ord |-> GroupLookup(e, groups, ord[i])[1]],
          queried |-> ord]

\* as AllowPrerelease, by the first package alone
AllowPrereleaseFirst(pkgs) == pkgs # <<>> /\ pkgs[1].version.pre

\* allow_prerelease
AllowPrerelease(pkgs) == \E i \in DOMAIN pkgs : pkgs[i].version.pre

\* the test of the request's conflict table
HasConflicts(req) == req.conflicts # <<>>

\* as ConflictError, of the conflict recorded last
ConflictErrorLast(conflicts) ==
    [conflict |-> conflicts[Len(conflicts)].name,
     dependency_name |-> conflicts[Len(conflicts)].requirers[1]]

\* the error made of a request with conflicts: the first conflict of the table
\* and the first of its requirers
ConflictError(conflicts) ==
    [conflict |-> conflicts[1].name, dependency_name |-> conflicts[1].requirers[1]]

\* as InstalledFromUnlockedDependencies, read after the request gave its list away
InstalledFromUnlockedDependenciesMoved(req) == <<>>

\* installed_from_unlocked_dependencies
InstalledFromUnlockedDependencies(req) == req.locked

\* do_add_package_request: record and install each package of the request, then
\* persist the manifest; or an I/O error with part of the work done
DoAddPackageRequest(m, lf, dk, req, faults) ==
    { [kind |-> "Ok", manifest |-> AddAllLocked(m, req.locked),
       lockFile |-> AddAllLocked(m, req.locked),
       disk |-> AddPackages(dk, Range(req.locked))] }
    \cup
    { [kind |-> "Io",
       manifest |-> AddAllLocked(m, SelectSeq(req.locked, LAMBDA p : p \in S)),
       lockFile |-> lf,
       disk |-> AddPackages(dk, S)] :
          S \in { T \in SUBSET Range(req.locked) : faults /\ T # Range(req.locked) } }

\* resolve, after Phase A succeeded with a
ResolvePhaseB(a, ord) ==
    LET groups == GroupMap(Requirements(unlocked_packages, manifest))
        deps == UnlockedDependencies(env, groups, ord)
        req == AddPackageRequest(env, manifest, deps.pkgs, AllowPrerelease(deps.pkgs))
        call == [Call("resolve") EXCEPT !.phaseADisk = a.disk,
                                        !.completed = a.done,
                                        !.allow_prerelease = AllowPrerelease(deps.pkgs),
                                        !.queries = deps.queried]
    IN  IF deps.kind # "Ok"
        THEN /\ last' = [call EXCEPT !.kind = deps.kind,
                                     !.phase = "B",
                                     !.dependency_name = deps.dependency_name]
             /\ disk' = a.disk
             /\ UNCHANGED <<manifest, lockFile>>
        ELSE IF req.missing # ""
        THEN /\ last' = [call EXCEPT !.kind = "DependencyNotFound",
                                     !.phase = "closure",
                                     !.dependency_name = req.missing,
                                     !.roots = deps.pkgs]
             /\ disk' = a.disk
             /\ UNCHANGED <<manifest, lockFile>>
        ELSE IF HasConflicts(req)
        THEN /\ last' = [call EXCEPT !.kind = "ConflictWithDependencies",
                                     !.phase = "closure",
                                     !.conflict = ConflictError(req.conflicts).conflict,
                                     !.dependency_name =
                                         ConflictError(req.conflicts).dependency_name,
                                     !.roots = deps.pkgs,
                                     !.closure = req.locked,
                                     !.conflicts = req.conflicts]
             /\ disk' = a.disk
             /\ UNCHANGED <<manifest, lockFile>>
        ELSE \E b \in DoAddPackageRequest(manifest, lockFile, a.disk, req, ioFaults) :
             /\ last' = [call EXCEPT
                            !.kind = b.kind,
                            !.phase = "commit",
                            !.roots = deps.pkgs,
                            !.closure = req.locked,
                            !.conflicts = req.conflicts,
                            !.installed_from_locked =
                                IF b.kind = "Ok" THEN a.pkgs ELSE <<>>,
                            !.installed_from_unlocked_dependencies =
                                IF b.kind = "Ok"
                                THEN InstalledFromUnlockedDependencies(req) ELSE <<>>]
             /\ disk' = b.disk
             /\ manifest' = b.manifest
             /\ lockFile' = b.lockFile

Resolve ==
    /\ loaded
    /\ \E a \in InstalledFromLocked(manifest, env, disk, ioFaults) :
          IF a.kind # "Ok"
          THEN /\ last' = [Call("resolve") EXCEPT
                              !.kind = a.kind,
                              !.phase = "A",
                              !.completed = a.done,
                              !.dependency_name = a.dependency_name,
                              !.phaseADisk = a.disk]
               /\ disk' = a.disk
               /\ UNCHANGED <<manifest, lockFile>>
          ELSE \E ord \in Orders(DOMAIN GroupMap(Requirements(unlocked_packages, manifest))) :
                  ResolvePhaseB(a, ord)
    /\ UNCHANGED <<env, ioFaults, loaded, unlocked_packages, installed_packages>>
    /\ UNCHANGED <<projectVersionFile, unity_version, aside>>

----------------------------------------------------------------------------
(* mark_and_sweep. *)

\* the names the unlocked packages depend on: the roots of the mark phase
SweepRoots(up) ==
    { d.name : d \in UNION { Range(p.deps) : p \in Range(UnlockedDescriptors(up)) } }

\* the mark phase: the locked names reached from a set of names
RECURSIVE Mark(_, _, _)
Mark(m, marked, frontier) ==
    LET fresh == (frontier \cap LockedNames(m)) \ marked
    IN  IF fresh = {} THEN marked
        ELSE Mark(m, marked \cup fresh,
                  { d.name : d \in UNION { Range(GetLocked(m, n)[1].deps) : n \in fresh } })

\* VpmManifest::mark_and_sweep_packages: the locked names not marked
MarkAndSweepPackages(m, up) == LockedNames(m) \ Mark(m, {}, SweepRoots(up))

\* the manifest without the swept entries
Sweep(m, removed) == SelectSeq(m, LAMBDA e : e.name \notin removed)

\* as RemoveDirAll, deleting only a directory whose descriptor parses
RemoveDirAllParsedOnly(dk, name) ==
    IF dk[name].json # <<>> THEN [dk EXCEPT ![name] = Absent] ELSE dk

\* remove_dir_all of Packages/<name>, as mark_and_sweep maps its result:
\* a directory that is not there is no error
RemoveDirAll(dk, name) == [dk EXCEPT ![name] = Absent]

RemoveDirs(dk, names) == [d \in DirNames |-> IF d \in names THEN RemoveDirAll(dk, d)[d] ELSE dk[d]]

\* as SweepDeletions, a directory that is not there counted as a failure
SweepDeletionsNotFoundFails(dk, removed, faults) ==
    IF removed \subseteq Present(dk)
    THEN { [kind |-> "Ok", disk |-> RemoveDirs(dk, removed)] }
    ELSE { [kind |-> "Io", disk |-> RemoveDirs(dk, S)] : S \in SUBSET (removed \cap Present(dk)) }

\* the deletions of the batch: all done, or an I/O error on a directory that is
\* there, with some of the other deletions done
SweepDeletions(dk, removed, faults) ==
    { [kind |-> "Ok", disk |-> RemoveDirs(dk, removed)] }
    \cup
    { [kind |-> "Io", disk |-> RemoveDirs(dk, S)] :
          S \in { T \in SUBSET removed : faults /\ (removed \ T) \cap Present(dk) # {} } }

\* what mark_and_sweep returns on success
SweepResult(removed) == removed

MarkAndSweep ==
    /\ loaded
    /\ LET removed == MarkAndSweepPackages(manifest, unlocked_packages)
       IN  /\ manifest' = Sweep(manifest, removed)
           /\ \E del \in SweepDeletions(disk, removed, ioFaults) :
                 /\ disk' = del.disk
                 /\ last' = [Call("mark_and_sweep") EXCEPT
                                !.kind = del.kind,
                                !.removed = IF del.kind = "Ok"
                                            THEN SweepResult(removed) ELSE {}]
    /\ UNCHANGED <<lockFile, env, ioFaults, loaded, unlocked_packages, installed_packages>>
    /\ UNCHANGED <<projectVersionFile, unity_version, aside>>

----------------------------------------------------------------------------
(* The batches of resolve (Phase A) and of mark_and_sweep, task by task.      *)
(* try_join_all polls its futures in the order they were given, returns the  *)
(* first error a pass meets and is then dropped with the futures not yet     *)
(* finished.  A file operation of tokio runs on the blocking pool: once      *)
(* started it runs to its end, whether or not the future that waits for it   *)
(* still exists.                                                             *)

\* the file operations an install awaits one after the other: the last one
\* puts the package in place
InstallSteps == 2

NoBatch == [ op |-> "off", tasks |-> <<>>, result |-> "none", error |-> 0, polls |-> 0 ]

IdleBatch == [ NoBatch EXCEPT !.op = "idle" ]

\* a future not yet polled: of the install of a locked entry, or of the
\* deletion of a directory
InstallTask(dep) ==
    [ name |-> dep.name, entry |-> << dep >>, pkg |-> <<>>,
      st |-> "new", step |-> 0, outcome |-> "none" ]

DeleteTask(name) ==
    [ name |-> name, entry |-> <<>>, pkg |-> <<>>,
      st |-> "new", step |-> 0, outcome |-> "none" ]

\* one poll of one future of the batch
PollTask(t, op, e) ==
    CASE t.st = "new" /\ op = "resolve" ->
            IF LockedLookup(e, t.entry[1]) = <<>>
            THEN [t EXCEPT !.st = "err", !.outcome = "DependencyNotFound"]
            ELSE [t EXCEPT !.st = "running", !.step = 1,
                           !.pkg = LockedLookup(e, t.entry[1])]
      [] t.st = "new" /\ op = "mark_and_sweep" ->
            [t EXCEPT !.st = "running", !.step = 1]
      [] t.st = "ready" ->
            IF t.outcome = "err" THEN [t EXCEPT !.st = "err"]
            ELSE IF op = "resolve" /\ t.step < InstallSteps
            THEN [t EXCEPT !.st = "running", !.step = @ + 1, !.outcome = "none"]
            ELSE [t EXCEPT !.st = "ok"]
      [] OTHER -> t

\* one pass of try_join_all over its futures, from the i-th on: it ends at the
\* first that is ready with an error
RECURSIVE PollPass(_, _, _, _)
PollPass(tasks, i, op, e) ==
    IF i > Len(tasks) THEN [tasks |-> tasks, error |-> 0]
    ELSE LET t == PollTask(tasks[i], op, e)
         IN  IF t.st = "err"
             THEN [tasks |-> [tasks EXCEPT ![i] = t], error |-> i]
             ELSE PollPass([tasks EXCEPT ![i] = t], i + 1, op, e)

\* the work of a future is done although the future is gone: a deletion whose
\* operation ended, an install whose last operation ended
WorkEnded(t, op) == op = "mark_and_sweep" \/ t.outcome = "err" \/ t.step = InstallSteps

\* a future dropped with the batch: one never polled never starts; the
\* operation in flight of another runs on without it; an install between two
\* of its operations goes no further
DropTask(t, op) ==
    CASE t.st = "new" -> [t EXCEPT !.st = "unstarted"]
      [] t.st = "running" -> [t EXCEPT !.st = "detached"]
      [] t.st = "ready" ->
            [t EXCEPT !.st = IF WorkEnded(t, op) THEN "finished" ELSE "cancelled"]
      [] OTHER -> t

\* resolve, up to its first poll: the futures of Phase A, in the order of all_locked
BatchedResolve ==
    /\ loaded
    /\ batch.op = "idle"
    /\ manifest # <<>>
    /\ batch' = [batch EXCEPT !.op = "resolve", !.result = "pending",
                              !.tasks = [i \in DOMAIN manifest |-> InstallTask(manifest[i])]]
    /\ UNCHANGED <<disk, lockFile, env, ioFaults, loaded, manifest, unlocked_packages,
                   installed_packages, last, projectVersionFile, unity_version,
                   walk, holder>>

\* mark_and_sweep, up to its first poll: the manifest swept, the futures of the
\* deletions in the order the set of removed names is iterated
BatchedMarkAndSweep ==
    /\ loaded
    /\ batch.op = "idle"
    /\ LET removed == MarkAndSweepPackages(manifest, unlocked_packages)
       IN  /\ removed # {}
           /\ manifest' = Sweep(manifest, removed)
           /\ \E ord \in Orders(removed) :
                 batch' = [batch EXCEPT !.op = "mark_and_sweep", !.result = "pending",
                                        !.tasks = [i \in DOMAIN ord |-> DeleteTask(ord[i])]]
    /\ UNCHANGED <<disk, lockFile, env, ioFaults, loaded, unlocked_packages,
                   installed_packages, last, projectVersionFile, unity_version,
                   walk, holder>>

\* the batch is polled: at first, and whenever an operation that ended woke it.
\* On an error the call returns it, and the futures are dropped
BatchPoll ==
    /\ batch.result = "pending"
    /\ batch.polls = 0 \/ \E i \in DOMAIN batch.tasks : batch.tasks[i].st = "ready"
    /\ LET pass == PollPass(batch.tasks, 1, batch.op, env)
       IN  batch' =
             IF pass.error > 0
             THEN [batch EXCEPT !.result = "Err", !.error = pass.error, !.polls = 1,
                                !.tasks = [i \in DOMAIN pass.tasks |->
                                              DropTask(pass.tasks[i], batch.op)]]
             ELSE [batch EXCEPT !.tasks = pass.tasks, !.polls = 1,
                                !.result =
                                    IF \A i \in DOMAIN pass.tasks : pass.tasks[i].st = "ok"
                                    THEN "Ok" ELSE "pending"]
    /\ UNCHANGED <<disk, lockFile, env, ioFaults, loaded, manifest, unlocked_packages,
                   installed_packages, last, projectVersionFile, unity_version,
                   walk, holder>>

\* the outcomes of the file operation in flight of a task: a deletion fails
\* only on a directory that is there
OperationOutcomes(t, op, dk, faults) ==
    {"ok"} \cup (IF faults /\ (op = "resolve" \/ dk[t.name] # Absent) THEN {"err"} ELSE {})

\* the package folder after the operation
OperationEffect(t, op, dk, outcome) ==
    IF outcome = "err" THEN dk
    ELSE IF op = "mark_and_sweep" THEN RemoveDirAll(dk, t.name)
    ELSE IF t.step = InstallSteps THEN AddPackage(dk, t.pkg[1])
    ELSE dk

\* the file operation in flight of a task ends, on the blocking pool
BatchOperationEnds ==
    /\ \E i \in DOMAIN batch.tasks :
          /\ batch.tasks[i].st \in {"running", "detached"}
          /\ \E outcome \in OperationOutcomes(batch.tasks[i], batch.op, disk, ioFaults) :
                LET t == [batch.tasks[i] EXCEPT !.outcome = outcome]
                IN  /\ disk' = OperationEffect(t, batch.op, disk, outcome)
                    /\ batch' = [batch EXCEPT !.tasks[i] =
                                      IF t.st = "running" THEN [t EXCEPT !.st = "ready"]
                                      ELSE DropTask([t EXCEPT !.st = "ready"], batch.op)]
    /\ UNCHANGED <<lockFile, env, ioFaults, loaded, manifest, unlocked_packages,
                   installed_packages, last, projectVersionFile, unity_version,
                   walk, holder>>

----------------------------------------------------------------------------
(* GuiConfigHolder (vrc-get-gui/src/config.rs). *)

\* the most times the model lets the config file be opened
MaxOpens == 3

\* the values of GuiConfig told apart: GuiConfig::default() and two others
Configs == {"default", "ja", "ja-hidden"}

\* vrc-get/gui-config.json: not there, not to be opened, not to be read to its
\* end, not the JSON of a GuiConfig, or the JSON of one
ConfigFiles ==
    { [st |-> k, json |-> ""] : k \in {"NotFound", "OpenError", "ReadError", "Malformed"} }
        \cup { [st |-> "json", json |-> c] : c \in Configs }

\* the call last made on the holder, and the state it started from
NoHolderCall ==
    [ op |-> "none", kind |-> "none", config |-> "", preCached |-> <<>>, preOpens |-> 0 ]

NoHolder ==
    [ op |-> "off", cached_value |-> <<>>, file |-> [st |-> "NotFound", json |-> ""], opens |-> 0,
      call |-> NoHolderCall ]

\* as LoadValue, a file that does not parse read as the default config
LoadValueLenient(file) ==
    CASE file.st \in {"NotFound", "Malformed"} -> [kind |-> "Ok", config |-> "default"]
      [] file.st = "json" -> [kind |-> "Ok", config |-> file.json]
      [] OTHER -> [kind |-> "Err", config |-> ""]

\* the value load reads when nothing is cached: io.open, read_to_end,
\* serde_json::from_slice
LoadValue(file) ==
    CASE file.st = "NotFound" -> [kind |-> "Ok", config |-> "default"]
      [] file.st = "json" -> [kind |-> "Ok", config |-> file.json]
      [] OTHER -> [kind |-> "Err", config |-> ""]

\* GuiConfigHolder::load
GuiConfigHolderLoad ==
    /\ holder.op = "holder"
    /\ IF holder.cached_value # <<>>
       THEN holder' = [holder EXCEPT
                          !.call = [NoHolderCall EXCEPT
                                       !.op = "load", !.kind = "Ok",
                                       !.config = holder.cached_value[1],
                                       !.preCached = holder.cached_value,
                                       !.preOpens = holder.opens]]
       ELSE /\ holder.opens < MaxOpens
            /\ LET value == LoadValue(holder.file)
               IN  holder' = [holder EXCEPT
                                 !.opens = @ + 1,
                                 !.cached_value =
                                     IF value.kind = "Ok" THEN << value.config >> ELSE @,
                                 !.call = [NoHolderCall EXCEPT
                                              !.op = "load", !.kind = value.kind,
                                              !.config = value.config,
                                              !.preCached = holder.cached_value,
                                              !.preOpens = holder.opens]]
    /\ UNCHANGED <<disk, lockFile, env, ioFaults, loaded, manifest, unlocked_packages,
                   installed_packages, last, projectVersionFile, unity_version,
                   walk, batch>>

\* a change of the config through the handler a load returned (DerefMut)
GuiConfigHandlerDerefMut ==
    /\ holder.op = "holder"
    /\ holder.cached_value # <<>>
    /\ \E c \in Configs \ { holder.cached_value[1] } :
          holder' = [holder EXCEPT !.cached_value = << c >>,
                                   !.call = [NoHolderCall EXCEPT !.op = "deref_mut"]]
    /\ UNCHANGED <<disk, lockFile, env, ioFaults, loaded, manifest, unlocked_packages,
                   installed_packages, last, projectVersionFile, unity_version,
                   walk, batch>>

\* GuiConfigHandler::save
GuiConfigHandlerSave ==
    /\ holder.op = "holder"
    /\ holder.cached_value # <<>>
    /\ holder' = [holder EXCEPT !.file = [st |-> "json", json |-> holder.cached_value[1]],
                                !.call = [NoHolderCall EXCEPT !.op = "save", !.kind = "Ok"]]
    /\ UNCHANGED <<disk, lockFile, env, ioFaults, loaded, manifest, unlocked_packages,
                   installed_packages, last, projectVersionFile, unity_version,
                   walk, batch>>

\* the file changes under the program
ConfigFileChanges ==
    /\ holder.op = "holder"
    /\ \E f \in ConfigFiles \ { holder.file } :
          holder' = [holder EXCEPT !.file = f,
                                   !.call = [NoHolderCall EXCEPT !.op = "file"]]
    /\ UNCHANGED <<disk, lockFile, env, ioFaults, loaded, manifest, unlocked_packages,
                   installed_packages, last, projectVersionFile, unity_version,
                   walk, batch>>

----------------------------------------------------------------------------
(* The specification of the engine. *)


Init ==
    /\ disk \in Disks
    /\ lockFile \in LockFiles
    /\ env \in Environments
    /\ ioFaults = FALSE
    /\ loaded = FALSE
    /\ manifest = <<>>
    /\ unlocked_packages = <<>>
    /\ installed_packages = <<>>
    /\ last = NoCall
    /\ projectVersionFile = TextFile(<< "m_EditorVersion:", " ", "2022.3.6f1", "\n" >>)
    /\ unity_version = <<>>
    /\ walk = NoWalk
    /\ batch = NoBatch
    /\ holder = NoHolder

Next ==
    \/ FindUnityProject
    \/ Resolve
    \/ MarkAndSweep
    \/ Save

Spec == Init /\ [][Next]_vars

----------------------------------------------------------------------------
(* The engine with file operations that may fail, over the environment that *)
(* lacks some of the locked versions.                                        *)

\* the most locked entries of the lock file when file operations may fail
MaxIoLocked == 2
\* the most entries of the package folder then
MaxIoDirs == 1

IoInit ==
    /\ disk \in { dk \in Disks : Cardinality(Present(dk)) <= MaxIoDirs }
    /\ lockFile \in { lf \in LockFiles : Len(lf) <= MaxIoLocked }
    /\ env = Index \ Removable
    /\ ioFaults = TRUE
    /\ loaded = FALSE
    /\ manifest = <<>>
    /\ unlocked_packages = <<>>
    /\ installed_packages = <<>>
    /\ last = NoCall
    /\ projectVersionFile = MissingFile
    /\ unity_version = <<>>
    /\ walk = NoWalk
    /\ batch = NoBatch
    /\ holder = NoHolder

SpecIo == IoInit /\ [][Next]_vars

----------------------------------------------------------------------------
(* The engine over an index with pre-releases. *)

PreDisks ==
    { dk \in [DirNames -> {Absent} \cup { Holding(p) : p \in PreUserPackages }] :
          \A d \in DirNames : dk[d] # Absent => dk[d].json[1].name = d }

PreLockFiles == { <<>>, << Package("Z", Ver(1), <<>>) >> }

PreInit ==
    /\ disk \in PreDisks
    /\ lockFile \in PreLockFiles
    /\ env \in PreEnvironments
    /\ ioFaults = FALSE
    /\ loaded = FALSE
    /\ manifest = <<>>
    /\ unlocked_packages = <<>>
    /\ installed_packages = <<>>
    /\ last = NoCall
    /\ projectVersionFile = MissingFile
    /\ unity_version = <<>>
    /\ walk = NoWalk
    /\ batch = NoBatch
    /\ holder = NoHolder

SpecPre == PreInit /\ [][Next]_vars

----------------------------------------------------------------------------
(* The batches task by task, file operations failing or not. *)

\* the most tasks of a batch, and the most entries of the package folder
MaxTasks == 2

BatchInit ==
    /\ disk \in { dk \in Disks : Cardinality(Present(dk)) <= MaxTasks }
    /\ lockFile \in { lf \in LockFiles : Len(lf) <= MaxTasks }
    /\ env \in Environments
    /\ ioFaults = TRUE
    /\ loaded = FALSE
    /\ manifest = <<>>
    /\ unlocked_packages = <<>>
    /\ installed_packages = <<>>
    /\ last = NoCall
    /\ projectVersionFile = MissingFile
    /\ unity_version = <<>>
    /\ walk = NoWalk
    /\ batch = IdleBatch
    /\ holder = NoHolder

BatchNext ==
    \/ FindUnityProject
    \/ BatchedResolve
    \/ BatchedMarkAndSweep
    \/ BatchPoll
    \/ BatchOperationEnds

SpecBatch == BatchInit /\ [][BatchNext]_vars

----------------------------------------------------------------------------
(* The search for the project directory, from any working directory. *)

PathInit ==
    /\ disk = [d \in DirNames |-> Absent]
    /\ lockFile = <<>>
    /\ env = Index
    /\ ioFaults = FALSE
    /\ loaded = FALSE
    /\ manifest = <<>>
    /\ unlocked_packages = <<>>
    /\ installed_packages = <<>>
    /\ last = NoCall
    /\ projectVersionFile = MissingFile
    /\ unity_version = <<>>
    /\ \E cwd \in Cwds : \E files \in SUBSET MarkerPaths(cwd) :
           walk = [NoWalk EXCEPT !.pc = "called", !.cwd = cwd, !.files = files]
    /\ batch = NoBatch
    /\ holder = NoHolder

PathNext == FindUnityProjectPath \/ FindUnityProjectPathLoop

\* the function runs on: nothing suspends it
SpecPath == PathInit /\ [][PathNext]_vars /\ WF_vars(PathNext)

----------------------------------------------------------------------------
(* The GUI's configuration holder, from GuiConfigHolder::new() and any file. *)

ConfigInit ==
    /\ disk = [d \in DirNames |-> Absent]
    /\ lockFile = <<>>
    /\ env = Index
    /\ ioFaults = FALSE
    /\ loaded = FALSE
    /\ manifest = <<>>
    /\ unlocked_packages = <<>>
    /\ installed_packages = <<>>
    /\ last = NoCall
    /\ projectVersionFile = MissingFile
    /\ unity_version = <<>>
    /\ walk = NoWalk
    /\ batch = NoBatch
    /\ \E f \in ConfigFiles : holder = [NoHolder EXCEPT !.op = "holder", !.file = f]

ConfigNext ==
    \/ GuiConfigHolderLoad
    \/ GuiConfigHandlerDerefMut
    \/ GuiConfigHandlerSave
    \/ ConfigFileChanges

SpecConfig == ConfigInit /\ [][ConfigNext]_vars

----------------------------------------------------------------------------
(* Loading with any ProjectVersion.txt. *)

VersionInit ==
    /\ disk = [d \in DirNames |-> IF d = "Z" THEN Holding(Package("Z", Ver(1), <<>>)) ELSE Absent]
    /\ lockFile = << Package("Z", Ver(1), <<>>) >>
    /\ env = Index
    /\ ioFaults = FALSE
    /\ loaded = FALSE
    /\ manifest = <<>>
    /\ unlocked_packages = <<>>
    /\ installed_packages = <<>>
    /\ last = NoCall
    /\ projectVersionFile \in VersionFiles
    /\ unity_version = <<>>
    /\ walk = NoWalk
    /\ batch = NoBatch
    /\ holder = NoHolder

\* the load alone: the calls that follow do not read the file
SpecVersion == VersionInit /\ [][FindUnityProject]_vars

----------------------------------------------------------------------------
(* Properties of loading and of mark_and_sweep. *)

\* the directory p holds one of the two lock files
HoldsLockFile(p) ==
    \/ p \o << "Packages", "vpm-manifest.json" >> \in walk.files
    \/ p \o << "Packages", "manifest.json" >> \in walk.files

\* the result of the search is right: the nearest of the working directory and
\* its ancestors that holds a lock file, or NotFound when none does
C12_Result ==
    /\ walk.kind \in {"Ok", "NotFound"}
    /\ walk.kind = "NotFound" <=> \A n \in 0..Len(walk.cwd) : ~HoldsLockFile(SubSeq(walk.cwd, 1, n))
    /\ walk.kind = "Ok" =>
          \E n \in 0..Len(walk.cwd) :
              /\ walk.path = SubSeq(walk.cwd, 1, n)
              /\ HoldsLockFile(walk.path)
              /\ \A k \in (n + 1)..Len(walk.cwd) : ~HoldsLockFile(SubSeq(walk.cwd, 1, k))

\* C12: with no starting directory, the search ends, and returns the nearest
\* directory among the working directory and its ancestors that holds
\* Packages/vpm-manifest.json or Packages/manifest.json, the directory itself;
\* it returns NotFound exactly when no directory up to the root holds either.
C12_Discovery ==
    /\ [](walk.pc = "done" => C12_Result)
    /\ <>(walk.pc = "done")

\* a search that went up two directories and found the legacy file alone there,
\* with a lock file further up as well
C12_Witness ==
    /\ walk.pc = "done"
    /\ walk.kind = "Ok"
    /\ walk.iterations = 3
    /\ walk.path # <<>>
    /\ walk.path \o << "Packages", "vpm-manifest.json" >> \notin walk.files
    /\ HoldsLockFile(<<>>)

\* the text holds a version where try_read_unity_version looks for one: after the
\* first marker, on the same line, with nothing but spaces around it
HoldsVersion(t) ==
    \E i, j \in DOMAIN t :
        /\ t[i] = "m_EditorVersion:"
        /\ \A k \in 1..(i - 1) : t[k] # "m_EditorVersion:"
        /\ i < j
        /\ t[j] \in VersionTokens
        /\ \A k \in (i + 1)..(j - 1) : t[k] = " "
        /\ \A k \in (j + 1)..Len(t) :
               (\A l \in (j + 1)..k : t[l] \notin LineEnds) => t[k] = " "

\* C13: the load of a project succeeds whatever ProjectVersion.txt is; when the
\* file is missing, cannot be opened or read, has no marker or no parsable
\* version after it, unity_version is absent.
C13_VersionNeverFatal ==
    (last.op = "load") =>
        /\ loaded
        /\ last.kind = "Ok"
        /\ (projectVersionFile.st # "text" \/ ~HoldsVersion(projectVersionFile.text))
               => unity_version = <<>>
        /\ (projectVersionFile.st = "text" /\ HoldsVersion(projectVersionFile.text))
               => unity_version # <<>>

\* a load of a project whose file has the marker twice, the first without a
\* version, the second with one
C13_Witness ==
    /\ last.op = "load"
    /\ unity_version = <<>>
    /\ projectVersionFile.st = "text"
    /\ Len(projectVersionFile.text) >= 3
    /\ projectVersionFile.text[1] = "m_EditorVersion:"
    /\ \E i \in DOMAIN projectVersionFile.text :
           i > 1 /\ projectVersionFile.text[i] = "m_EditorVersion:"
    /\ \E i \in DOMAIN projectVersionFile.text :
           projectVersionFile.text[i] \in VersionTokens

\* the entry of the package folder named d is listed as unlocked exactly once,
\* with the descriptor read from it
ListedUnlockedOnce(d) ==
    LET occ == { i \in DOMAIN unlocked_packages : unlocked_packages[i].name = d }
    IN  /\ Cardinality(occ) = 1
        /\ \A i \in occ : unlocked_packages[i].json = disk[d].json

\* C8: after find_unity_project, every entry of the package folder is in exactly
\* one of installed_packages and unlocked_packages; it is in installed_packages
\* exactly when its descriptor parses, names the directory and that name is
\* locked; otherwise it is in unlocked_packages with the descriptor read (none
\* when parsing failed); and neither collection lists anything else.
C8_LoadPartition ==
    last.op = "load" =>
        /\ \A d \in Present(disk) :
              LET shouldBeInstalled ==
                      /\ disk[d].json # <<>>
                      /\ disk[d].json[1].name = d
                      /\ \E i \in DOMAIN manifest : manifest[i].name = d
              IN  IF shouldBeInstalled
                  THEN /\ d \in DOMAIN installed_packages
                       /\ installed_packages[d] = disk[d].json[1]
                       /\ \A i \in DOMAIN unlocked_packages : unlocked_packages[i].name # d
                  ELSE /\ d \notin DOMAIN installed_packages
                       /\ ListedUnlockedOnce(d)
        /\ DOMAIN installed_packages \subseteq Present(disk)
        /\ \A i \in DOMAIN unlocked_packages : unlocked_packages[i].name \in Present(disk)

\* a load that found an installed package, an unreadable directory named as a
\* locked entry, or a directory whose descriptor names another, locked package
C8_Witness ==
    /\ last.op = "load"
    /\ \E d \in Present(disk) :
          /\ disk[d].json # <<>>
          /\ disk[d].json[1].name # d
          /\ IsLocked(manifest, disk[d].json[1].name)
          /\ \E i \in DOMAIN unlocked_packages : unlocked_packages[i].name = d
    /\ \E d \in Present(disk) : d \in DOMAIN installed_packages

\* a locked name n is reached from the unlocked packages: a chain of declared
\* dependencies leads from an unlocked package's dependency, through locked
\* entries of m, to n
DependsOn(m, a, b) ==
    \E i \in DOMAIN m : m[i].name = a /\ \E k \in DOMAIN m[i].deps : m[i].deps[k].name = b

DeclaredByUnlocked(n) ==
    \E i \in DOMAIN unlocked_packages :
        /\ unlocked_packages[i].json # <<>>
        /\ \E k \in DOMAIN unlocked_packages[i].json[1].deps :
              unlocked_packages[i].json[1].deps[k].name = n

ReachedFromUnlocked(m, n) ==
    \E len \in 1..Len(m) :
        \E path \in [1..len -> LockedNames(m)] :
            /\ DeclaredByUnlocked(path[1])
            /\ path[len] = n
            /\ \A i \in 1..(len - 1) : DependsOn(m, path[i], path[i + 1])

\* C6: mark_and_sweep removes from the manifest exactly the locked entries not
\* reached from the unlocked packages' declared dependencies, keeps the others
\* in order, and on success has deleted the directory of each removed entry
\* and returns exactly the removed names.
C6_SweepExact ==
    last.op = "mark_and_sweep" =>
        LET pre == last.preManifest
            gone == { n \in LockedNames(pre) : ~ReachedFromUnlocked(pre, n) }
        IN  /\ manifest = SelectSeq(pre, LAMBDA e : e.name \notin gone)
            /\ last.kind = "Ok" =>
                  /\ last.removed = gone
                  /\ \A n \in gone : disk[n] = Absent

\* a sweep that kept a locked entry reached only through another locked entry
\* and removed one whose directory was there
C6_Witness ==
    /\ last.op = "mark_and_sweep"
    /\ last.kind = "Ok"
    /\ \E n \in last.removed : last.preDisk[n] # Absent /\ disk[n] = Absent
    /\ \E n \in LockedNames(manifest) :
          ~DeclaredByUnlocked(n) /\ ReachedFromUnlocked(last.preManifest, n)

\* C11: mark_and_sweep fails only with the I/O error of a deletion whose
\* directory was there; the entries not reached from the unlocked packages are
\* then removed from the manifest all the same; when every directory to delete
\* is missing, the call succeeds, file operations failing or not.
C11_SweepErrorNotRestored ==
    last.op = "mark_and_sweep" =>
        LET pre == last.preManifest
            gone == { n \in LockedNames(pre) : ~ReachedFromUnlocked(pre, n) }
        IN  /\ last.kind \in {"Ok", "Io"}
            /\ manifest = SelectSeq(pre, LAMBDA e : e.name \notin gone)
            /\ last.kind = "Io" => \E n \in gone : last.preDisk[n] # Absent
            /\ (\A n \in gone : last.preDisk[n] = Absent) =>
                   last.kind = "Ok" /\ last.removed = gone

\* a sweep that failed on a directory, another directory to delete missing,
\* and left the manifest without both entries
C11_Witness ==
    /\ ioFaults
    /\ last.op = "mark_and_sweep"
    /\ last.kind = "Io"
    /\ \E n \in LockedNames(last.preManifest) \ LockedNames(manifest) :
           last.preDisk[n] = Absent
    /\ \E n \in LockedNames(last.preManifest) \ LockedNames(manifest) :
           last.preDisk[n] # Absent /\ disk[n] # Absent

\* C7 (as claimed): mark_and_sweep leaves every directory listed in
\* unlocked_packages as it was.
C7_SweepKeepsUnlocked ==
    last.op = "mark_and_sweep" =>
        \A i \in DOMAIN unlocked_packages :
            disk[unlocked_packages[i].name] = last.preDisk[unlocked_packages[i].name]

\* C9 (as claimed): the keys of installed_packages are names of locked entries.
C9_InstalledAreLocked ==
    loaded => DOMAIN installed_packages \subseteq LockedNames(manifest)

----------------------------------------------------------------------------
(* Properties of resolve. *)

\* the environment has the exact version of a locked entry
HasExact(entry) == \E p \in env : p.name = entry.name /\ p.version = entry.version

\* the version v lies in "^major.0" / "*"
InRange(r, v) == r.kind = "any" \/ v.major = r.major

\* an unlocked package with a descriptor declares the dependency n with range r
UnlockedRequires(who, n, r) ==
    \E i \in DOMAIN unlocked_packages :
        /\ unlocked_packages[i].json # <<>>
        /\ unlocked_packages[i].json[1].name = who
        /\ \E k \in DOMAIN unlocked_packages[i].json[1].deps :
              unlocked_packages[i].json[1].deps[k] = [name |-> n, range |-> r]

UnlockedHasName(n) ==
    \E i \in DOMAIN unlocked_packages :
        unlocked_packages[i].json # <<>> /\ unlocked_packages[i].json[1].name = n

\* the case of C1: unlocked A requires X ^1.0, unlocked B requires X ^2.0, X is
\* neither locked nor the name of an unlocked package, and resolve was called
C1_Case ==
    /\ last.op = "resolve"
    /\ UnlockedRequires("A", "X", Caret(1))
    /\ UnlockedRequires("B", "X", Caret(2))
    /\ "X" \notin LockedNames(last.preManifest)
    /\ ~UnlockedHasName("X")

\* names other than X that resolve looks up and the environment cannot supply:
\* locked entries without their exact version, dependencies of unlocked
\* packages that no version satisfies
C1_OtherMissing ==
    { e.name : e \in { x \in Range(last.preManifest) : ~HasExact(x) } }
        \cup { n \in DirNames \ {"X"} :
                 /\ DeclaredByUnlocked(n)
                 /\ ~\E p \in env :
                        /\ p.name = n
                        /\ \A who \in DirNames, r \in {Caret(1), Caret(2), AnyRange} :
                               UnlockedRequires(who, n, r) => InRange(r, p.version) }

InstalledAsLocked(dk, entry) ==
    /\ HasExact(entry)
    /\ dk[entry.name].json # <<>>
    /\ dk[entry.name].json[1].name = entry.name
    /\ dk[entry.name].json[1].version = entry.version

\* C16: when Phase A fails, resolve returns its error (DependencyNotFound for
\* a locked entry the environment lacks, or an I/O error), every locked package
\* whose install completed is installed in the package folder, and the manifest
\* and the lock file are as before.
C16_PhaseANoRollback ==
    (last.op = "resolve" /\ last.phase = "A") =>
        /\ last.kind \in {"DependencyNotFound", "Io"}
        /\ last.kind = "DependencyNotFound" =>
              \E i \in DOMAIN last.preManifest :
                  /\ ~HasExact(last.preManifest[i])
                  /\ last.dependency_name = last.preManifest[i].name
        /\ \A p \in last.completed :
              /\ disk[p.name] = Holding(p)
              /\ \E i \in DOMAIN last.preManifest :
                     /\ last.preManifest[i].name = p.name
                     /\ last.preManifest[i].version = p.version
        /\ manifest = last.preManifest
        /\ lockFile = last.preLockFile

\* a Phase A that failed with an I/O error after an install that changed the
\* package folder
C16_Witness ==
    /\ last.op = "resolve"
    /\ last.phase = "A"
    /\ last.kind = "Io"
    /\ \E p \in last.completed : last.preDisk[p.name] # Holding(p)
    /\ Len(manifest) >= 2

\* C19: a resolve in which Phase A failed made no Phase B lookup, built no
\* closure and changed no locked entry; a resolve that made a Phase B lookup,
\* built a closure or changed the manifest had every locked entry looked up and
\* installed by Phase A before.
C19_PhaseBAfterPhaseA ==
    last.op = "resolve" =>
        /\ last.phase = "A" =>
              /\ last.kind # "Ok"
              /\ last.queries = <<>>
              /\ last.roots = <<>>
              /\ last.closure = <<>>
              /\ manifest = last.preManifest
              /\ lockFile = last.preLockFile
        /\ (\/ last.queries # <<>>
            \/ last.roots # <<>>
            \/ last.closure # <<>>
            \/ manifest # last.preManifest
            \/ last.phase # "A") =>
              \A i \in DOMAIN last.preManifest :
                  InstalledAsLocked(last.phaseADisk, last.preManifest[i])

\* a resolve whose Phase A failed while an unlocked package declared a
\* dependency that Phase B would have looked up
C19_Witness ==
    /\ last.op = "resolve"
    /\ last.phase = "A"
    /\ \E n \in DirNames :
           /\ DeclaredByUnlocked(n)
           /\ n \notin LockedNames(manifest)
           /\ ~UnlockedHasName(n)
           /\ \E p \in env : p.name = n

\* the names Phase B has to look up: declared as a dependency by an unlocked
\* package with a descriptor, not locked, not the name of an unlocked package
PhaseBNames ==
    { n \in DirNames : /\ DeclaredByUnlocked(n)
                       /\ n \notin LockedNames(last.preManifest)
                       /\ ~UnlockedHasName(n) }

\* the environment has a package of that name in every range the unlocked
\* packages declare for it
PhaseBHasMatch(n) ==
    \E p \in env :
        /\ p.name = n
        /\ \A who \in DirNames, r \in {Caret(1), Caret(2), AnyRange} :
               UnlockedRequires(who, n, r) => InRange(r, p.version)

\* a resolve that reached Phase B
C17_Case == last.op = "resolve" /\ last.phase \in {"B", "closure", "commit"}

\* C17 (as claimed): Phase B looks up each of those names exactly once and no
\* other name, and a name without a match makes resolve fail with
\* DependencyNotFound for such a name.
C17_EachNameOnce ==
    C17_Case =>
        /\ Injective(last.queries)
        /\ Range(last.queries) = PhaseBNames
        /\ (\E n \in PhaseBNames : ~PhaseBHasMatch(n)) =>
              /\ last.kind = "DependencyNotFound"
              /\ last.dependency_name \in PhaseBNames
              /\ ~PhaseBHasMatch(last.dependency_name)

\* C17 (amended): Phase B looks up each of those names at most once and no
\* other name; the lookups stop at the first name without a match, for which
\* resolve fails with DependencyNotFound, the names after it in the order of
\* the group map not looked up at all; when every name has a match each is
\* looked up exactly once.
C17_EachNameAtMostOnce ==
    C17_Case =>
        /\ Injective(last.queries)
        /\ Range(last.queries) \subseteq PhaseBNames
        /\ \A i \in 1..(Len(last.queries) - 1) : PhaseBHasMatch(last.queries[i])
        /\ IF \A n \in PhaseBNames : PhaseBHasMatch(n)
           THEN /\ Range(last.queries) = PhaseBNames
                /\ last.phase # "B"
           ELSE /\ last.phase = "B"
                /\ last.kind = "DependencyNotFound"
                /\ last.queries # <<>>
                /\ last.dependency_name = last.queries[Len(last.queries)]
                /\ ~PhaseBHasMatch(last.dependency_name)
                /\ manifest = last.preManifest

\* a Phase B with two names to look up that stopped at the first
C17_Witness ==
    /\ C17_Case
    /\ Cardinality(PhaseBNames) = 2
    /\ Len(last.queries) = 1
    /\ last.kind = "DependencyNotFound"
    /\ last.dependency_name = last.queries[1]

\* a resolve that built a closure
C18_Case == last.op = "resolve" /\ last.phase \in {"closure", "commit"}

\* one of the packages selected for the root groups is a pre-release
RootIsPrerelease == \E i \in DOMAIN last.roots : last.roots[i].version.pre

\* the package of the closure named n is the highest version of the
\* environment in the range r, pre-releases counted
HighestOfAll(n, r) ==
    \E q \in Range(last.closure) :
        /\ q.name = n
        /\ InRange(r, q.version)
        /\ \A c \in env : (c.name = n /\ InRange(r, c.version)) =>
               VerRank(c.version) <= VerRank(q.version)

\* C18: pre-releases are admitted in the closure build exactly when one of the
\* packages selected for the root groups is a pre-release; then every
\* dependency of every package of the closure, not only those of the
\* pre-release root, is given the highest version in range, pre-releases
\* counted; otherwise no package the closure adds to the roots is a
\* pre-release.
C18_PrereleaseGlobal ==
    C18_Case =>
        /\ last.allow_prerelease <=> RootIsPrerelease
        /\ ~RootIsPrerelease =>
              \A p \in Range(last.closure) \ Range(last.roots) : ~p.version.pre
        /\ RootIsPrerelease =>
              \A p \in Range(last.closure) : \A k \in DOMAIN p.deps :
                  (/\ p.deps[k].name \notin LockedNames(last.preManifest)
                   /\ \A i \in DOMAIN last.roots : last.roots[i].name # p.deps[k].name)
                      => HighestOfAll(p.deps[k].name, p.deps[k].range)

\* a resolve whose root Y is a pre-release and whose closure has the
\* pre-release of Z as the dependency of X, itself no pre-release, a plain
\* version of Z being on offer too
C18_Witness ==
    /\ C18_Case
    /\ last.kind = "Ok"
    /\ RootIsPrerelease
    /\ \E p \in Range(last.closure) : p.name = "X" /\ ~p.version.pre
    /\ \E p \in Range(last.closure) : p.name = "Z" /\ p.version.pre
    /\ \E c \in env : c.name = "Z" /\ ~c.version.pre

\* the second of two resolve calls in succession, the first having succeeded
C2_Case == last.op = "resolve" /\ last.afterOkResolve

\* C2 (as claimed): the second call installs nothing new and returns two empty
\* lists.
C2_SecondCallEmpty ==
    C2_Case =>
        /\ last.kind = "Ok"
        /\ disk = last.preDisk
        /\ last.installed_from_locked = <<>>
        /\ last.installed_from_unlocked_dependencies = <<>>

\* C2 (amended): the second call installs nothing new, changes no locked entry
\* and, on success, returns an empty installed_from_unlocked_dependencies;
\* installed_from_locked lists the package of every locked entry again.  It
\* fails only by an I/O error.
C2_SecondCallRelists ==
    C2_Case =>
        /\ last.kind \in {"Ok", "Io"}
        /\ ~ioFaults => last.kind = "Ok"
        /\ disk = last.preDisk
        /\ manifest = last.preManifest
        /\ last.kind = "Ok" =>
              /\ last.installed_from_unlocked_dependencies = <<>>
              /\ Len(last.installed_from_locked) = Len(manifest)
              /\ \A i \in DOMAIN manifest :
                    /\ last.installed_from_locked[i].name = manifest[i].name
                    /\ last.installed_from_locked[i].version = manifest[i].version

\* a second call on a project whose first call locked a closure
C2_Witness ==
    /\ C2_Case
    /\ last.kind = "Ok"
    /\ Len(last.installed_from_locked) >= 2
    /\ \E n \in LockedNames(manifest) : DeclaredByUnlocked(n)

\* C3: when the environment lacks the exact version of some locked entry,
\* resolve fails with DependencyNotFound naming such an entry (the first of them
\* in the manifest's order), and neither the manifest nor the lock file changes.
C3_MissingLocked ==
    (last.op = "resolve" /\ \E i \in DOMAIN last.preManifest : ~HasExact(last.preManifest[i])) =>
        /\ last.kind = "DependencyNotFound"
        /\ \E i \in DOMAIN last.preManifest :
              /\ ~HasExact(last.preManifest[i])
              /\ \A j \in 1..(i - 1) : HasExact(last.preManifest[j])
              /\ last.dependency_name = last.preManifest[i].name
        /\ manifest = last.preManifest
        /\ lockFile = last.preLockFile

\* a failed resolve with a locked entry of which the environment has another
\* version only, after a locked entry that was found and installed
C3_Witness ==
    /\ last.op = "resolve"
    /\ last.kind = "DependencyNotFound"
    /\ \E i \in DOMAIN last.preManifest :
          /\ ~HasExact(last.preManifest[i])
          /\ last.dependency_name = last.preManifest[i].name
          /\ \E p \in env : p.name = last.preManifest[i].name
          /\ i > 1
    /\ disk # last.preDisk

\* C4: after a successful resolve, the package folder holds, for every locked
\* entry of the manifest, a directory of its name with a package of its name
\* and version.
C4_LockedAreInstalled ==
    (last.op = "resolve" /\ last.kind = "Ok") =>
        \A i \in DOMAIN manifest :
            /\ disk[manifest[i].name].json # <<>>
            /\ disk[manifest[i].name].json[1].name = manifest[i].name
            /\ disk[manifest[i].name].json[1].version = manifest[i].version

\* a successful resolve with an entry locked before whose directory was not as
\* locked, and an entry added by the call
C4_Witness ==
    /\ last.op = "resolve"
    /\ last.kind = "Ok"
    /\ Len(manifest) > Len(last.preManifest)
    /\ \E i \in DOMAIN last.preManifest :
          last.preDisk[last.preManifest[i].name] # disk[last.preManifest[i].name]

\* C5: when the request built in Phase B has a conflict, resolve fails with
\* ConflictWithDependencies naming the first conflict of the table and its first
\* requirer; the manifest and the lock file are unchanged and the package folder
\* is as Phase A left it, every entry locked before installed.
C5_ConflictAborts ==
    (last.op = "resolve" /\ last.conflicts # <<>>) =>
        /\ last.kind = "ConflictWithDependencies"
        /\ last.conflict = last.conflicts[1].name
        /\ last.dependency_name = last.conflicts[1].requirers[1]
        /\ manifest = last.preManifest
        /\ lockFile = last.preLockFile
        /\ disk = last.phaseADisk
        /\ \A p \in Range(last.closure) :
              p.name \notin LockedNames(last.preManifest) => disk[p.name] = last.preDisk[p.name]
        /\ \A i \in DOMAIN manifest :
              /\ disk[manifest[i].name].json # <<>>
              /\ disk[manifest[i].name].json[1].version = manifest[i].version

\* a resolve whose request had two conflicts, after Phase A installed something
C5_Witness ==
    /\ last.op = "resolve"
    /\ Len(last.conflicts) >= 2
    /\ last.conflicts[1].name # last.conflicts[Len(last.conflicts)].name
    /\ disk # last.preDisk

\* C10: when resolve finds no conflict and succeeds, every package of the
\* closure is installed and is a locked entry, the list returned as
\* installed_from_unlocked_dependencies is the closure, and the lock file holds
\* the manifest.
C10_ClosureCommitted ==
    (last.op = "resolve" /\ last.kind = "Ok") =>
        /\ last.conflicts = <<>>
        /\ \A p \in Range(last.closure) :
              /\ disk[p.name] = Holding(p)
              /\ \E i \in DOMAIN manifest : manifest[i] = p
        /\ last.installed_from_unlocked_dependencies = last.closure
        /\ lockFile = manifest

\* a successful resolve whose closure went beyond its roots and that changed
\* the lock file
C10_Witness ==
    /\ last.op = "resolve"
    /\ last.kind = "Ok"
    /\ Len(last.closure) > Len(last.roots)
    /\ last.roots # <<>>
    /\ lockFile # last.preLockFile

----------------------------------------------------------------------------
(* Properties of GuiConfigHolder. *)

\* C20: a load with a config cached returns that config, as changed in memory
\* since, and does not open the file; a load with nothing cached opens the
\* file once, and caches what it read, or the default config when the file is
\* not found; when the file cannot be opened, read or parsed the load fails and
\* the cache stays empty.  The cache is never emptied, so the file is read at
\* most once after a load succeeded.
C20_LoadCaches ==
    /\ holder.call.op = "load" =>
          IF holder.call.preCached # <<>>
          THEN /\ holder.call.kind = "Ok"
               /\ holder.call.config = holder.call.preCached[1]
               /\ holder.cached_value = holder.call.preCached
               /\ holder.opens = holder.call.preOpens
          ELSE /\ holder.opens = holder.call.preOpens + 1
               /\ holder.file.st = "NotFound" =>
                     /\ holder.call.kind = "Ok"
                     /\ holder.call.config = "default"
                     /\ holder.cached_value = << "default" >>
               /\ holder.file.st = "json" =>
                     /\ holder.call.kind = "Ok"
                     /\ holder.call.config = holder.file.json
                     /\ holder.cached_value = << holder.file.json >>
               /\ holder.file.st \in {"OpenError", "ReadError", "Malformed"} =>
                     /\ holder.call.kind = "Err"
                     /\ holder.cached_value = <<>>
    /\ holder.call.preCached # <<>> => holder.cached_value # <<>>
    /\ (holder.cached_value = <<>> /\ holder.opens > 0) => holder.call.kind # "Ok"

\* a load answered from the cache, after a failed load and a successful one,
\* the config changed in memory and the file no longer readable
C20_Witness ==
    /\ holder.call.op = "load"
    /\ holder.call.preCached # <<>>
    /\ holder.opens = 2
    /\ holder.file.st = "Malformed"
    /\ holder.call.config = "ja-hidden"

----------------------------------------------------------------------------
(* Properties of the batches. *)

\* C14 (as claimed): no install or deletion that had started when its batch
\* failed is cut short.
C14_StartedTasksComplete ==
    \A i \in DOMAIN batch.tasks : batch.tasks[i].st # "cancelled"

\* the task failed: a locked entry the environment lacks, an install whose
\* error the batch met, a deletion that ended in an error
TaskFailed(t) ==
    \/ t.st = "err"
    \/ batch.op = "resolve" /\ LockedLookup(env, t.entry[1]) = <<>>
    \/ batch.op = "mark_and_sweep" /\ t.outcome = "err"

\* C15 (as claimed): the error a batch returns is that of the first of its
\* failing tasks in the order they were submitted.
C15_EarliestErrorReturned ==
    batch.result = "Err" =>
        \A j \in 1..(batch.error - 1) : ~TaskFailed(batch.tasks[j])

====
